---- MODULE Spec2Model ----
(***************************************************************************)
(* Model of the request executor of httpx-go: Client.Do (client.go) and    *)
(* the retry policy it drives (retry.go).  One Client is configured in     *)
(* Init; Do calls run one after another on it.  Every blocking point of Do *)
(* (rate-limiter wait, transport call, backoff wait) is a separate step,   *)
(* and the contexts and the retry timer are driven by the environment.     *)
(***************************************************************************)
EXTENDS Integers, Sequences, FiniteSets, TLC

(* ---------------------------------------------------------------- bounds *)

\* Largest RetryPolicy.MaxRetries the model configures (the field is an int;
\* the smallest configured value is -1).
MaxRetriesBound == 3

\* Number of sequential Do calls on the client.
MaxCalls == 2

(* ------------------------------------------------------------ data types *)

\* Status codes the modelled transport can answer with.
Statuses == {200, 404, 503}

\* The Retry-After values the modelled transport sends with status s; <<>> is
\* no header.  A 503 comes without the header or with "Retry-After: 0".
RetryAfterValues(s) == IF s = 503 THEN {<<>>, <<"0">>} ELSE {<<>>}

\* retry.go DefaultRetryPolicy: the default retryable status codes.
DefaultRetryableStatusCodes == {429, 503, 502, 504, 408, 409, 412, 423}

\* A nil *http.Response.
NoResp == [src |-> "nil", call |-> 0, n |-> 0, status |-> 0, retryAfter |-> <<>>]

\* The response the transport returns to attempt n of Do call c.
TransportResp(c, n, s) ==
    [src |-> "transport", call |-> c, n |-> n, status |-> s, retryAfter |-> <<>>]

\* A response that was stored in the cache before the first Do call.
StoredResp(s) ==
    [src |-> "stored", call |-> 0, n |-> 0, status |-> s, retryAfter |-> <<>>]

\* An error value is the set of errors it matches under errors.Is; the nil
\* error is the empty set.  fmt.Errorf("%w", err) keeps that set.
NoErr == {}

\* Errors of a context: ctx.Err().
CtxErrors == {"context.Canceled", "context.DeadlineExceeded"}

\* retry.go: ErrRetryCanceled.
ErrRetryCanceled == "retry canceled"

\* The errors c.client.Do returns by itself: a network failure, or the
\* http.Client timeout, which matches context.DeadlineExceeded.
NetError == {"transport"}
TimeoutError == {"transport", "context.DeadlineExceeded"}

\* The error c.client.Do returns for a request whose context is done.
RequestCtxError(e) == {"transport", e}

\* Error of rate.Limiter.Wait that is not the context's (burst exceeded,
\* deadline too close), and errors of Cache.Get and Cache.Set.
LimiterError == {"rate"}
CacheGetError == {"cache get"}
CacheSetError == {"cache set"}

\* Durations are counted in quarters of a second: time.Second.
Second == 4

\* Width in bits of a time.Duration (an int64 in the code): durations wrap
\* modulo 2^DurationBits.
DurationBits == 10

\* retry.go DefaultRetryPolicy: MinRetryDelay and MaxRetryDelay.
DefaultMinRetryDelay == 1 * Second
DefaultMaxRetryDelay == 30 * Second

\* A RetryPolicy value; set = FALSE is the nil pointer.
NilRetryPolicy ==
    [set |-> FALSE, MaxRetries |-> 0, retryableStatusCodeMap |-> {}, retryTimer |-> FALSE,
     RetryableStatusCodes |-> {}, MinRetryDelay |-> 0, MaxRetryDelay |-> 0]

\* retry.go DefaultRetryPolicy, with MaxRetries then assigned by the caller.
DefaultRetryPolicy(m) ==
    [set |-> TRUE, MaxRetries |-> m,
     retryableStatusCodeMap |-> DefaultRetryableStatusCodes, retryTimer |-> TRUE,
     RetryableStatusCodes |-> DefaultRetryableStatusCodes,
     MinRetryDelay |-> DefaultMinRetryDelay, MaxRetryDelay |-> DefaultMaxRetryDelay]

\* A RetryPolicy built as a struct literal outside the package, with the
\* exported fields given the default values: the unexported map and timer
\* stay nil.
LiteralRetryPolicy(m) ==
    [set |-> TRUE, MaxRetries |-> m, retryableStatusCodeMap |-> {}, retryTimer |-> FALSE,
     RetryableStatusCodes |-> DefaultRetryableStatusCodes,
     MinRetryDelay |-> DefaultMinRetryDelay, MaxRetryDelay |-> DefaultMaxRetryDelay]

\* The exported fields RetryableStatusCodes, MinRetryDelay and MaxRetryDelay
\* of policy p assigned by the caller after p was built.
WithFields(p, codes, min, max) ==
    [p EXCEPT !.RetryableStatusCodes = codes, !.MinRetryDelay = min, !.MaxRetryDelay = max]

\* A Retry-After header value is a sequence of characters; <<>> is the empty
\* string Header.Get returns for an absent header.
Digits == <<"0", "1", "2", "3", "4", "5", "6", "7", "8", "9">>
IsDigit(c) == \E d \in 1..10 : Digits[d] = c
DigitValue(c) == (CHOOSE d \in 1..10 : Digits[d] = c) - 1

\* The goroutines that call RetryPolicy.Wait on the one policy, MaxWaits
\* times in all, and the last instant of the clock.
Waiters == {1, 2}
MaxWaits == 3
MaxTime == 10

\* A goroutine that has not called Wait: the kind of its context, the
\* context's error and deadline, when Wait began, the delay it computed,
\* what it returned and when. Once Wait has returned, deadline and retAt
\* are counted from the instant Wait began and start is 0.
IdleWait == [pc |-> "idle", n |-> 0, kind |-> "background", ctxErr |-> "none",
             deadline |-> 0, start |-> 0, delay |-> 0, ret |-> {}, retAt |-> 0]

\* client.go: DefaultTimeout.
DefaultTimeout == 10 * Second

\* The goroutines that call Do concurrently on the one Client.
MaxGoroutines == 2
Goroutines == 1..MaxGoroutines

\* internal/httpclient NewClient: an http.Client with the given timeout;
\* NilHTTPClient is the nil pointer.
NilHTTPClient == [set |-> FALSE, Timeout |-> 0]
HTTPClient(timeout) == [set |-> TRUE, Timeout |-> timeout]

\* client.go NewClient (and NewClientWithCache, which calls it), and the
\* zero-value Client: the fields initClient uses. initOnce.m is the goroutine
\* holding the mutex of the sync.Once, 0 when free.
NewClient ==
    [client |-> HTTPClient(DefaultTimeout), Timeout |-> 0, Debug |-> FALSE,
     Logger |-> FALSE, initOnce |-> [done |-> FALSE, m |-> 0]]
ZeroClient ==
    [client |-> NilHTTPClient, Timeout |-> 0, Debug |-> FALSE,
     Logger |-> FALSE, initOnce |-> [done |-> FALSE, m |-> 0]]

\* Nothing has run of the initialization: the number of runs of the body of
\* initClient, the number of http.Client values built for the Client, and
\* whether the body has returned.
NoHist == [bodyRuns |-> 0, built |-> 0, completed |-> FALSE]

\* No probe of the policy's functions has been made.
NoProbe == [op |-> "none", status |-> 0, header |-> <<>>, retry |-> FALSE,
            failed |-> FALSE, delay |-> 0]

VARIABLES
    RetryPolicy,   \* Client.RetryPolicy
    RateLimiter,   \* Client.RateLimiter # nil
    Cache,         \* Client.Cache # nil
    cacheEntry,    \* what the cache holds for the request's key (NoResp: nothing)
    sameCtx,       \* req.Context() is the ctx passed to Do
    ctxErr,        \* ctx.Err() of the context passed to Do ("none": not done)
    reqCtxErr,     \* req.Context().Err()
    timerArmed,    \* RetryPolicy.retryTimer is running
    timerC,        \* number of ticks buffered in retryTimer.C (capacity 1)
    pc,            \* position of the current Do call
    i,             \* loop variable of Do
    resp,          \* local variable resp of Do
    key,           \* local variable key of Do ("": not computed)
    ret,           \* what Do returned
    log,           \* collaborator calls made by the current Do call, in order
    calls,         \* number of Do calls started
    probe,         \* a direct call of a pure function: its inputs and result
    asyncTimerChan,\* the build's timer channels are buffered (before Go 1.23)
    now,           \* the clock, in quarters of a second
    timerAt,       \* when retryTimer is due, while armed
    waits,         \* per goroutine, its call of RetryPolicy.Wait
    overlapped,    \* some Wait began while another was blocked
    client,        \* the Client's fields that initClient reads and writes
    goroutines,    \* per goroutine, its position in a Do call's initialization
    hist           \* what the initialization has done so far

vars == <<RetryPolicy, RateLimiter, Cache, cacheEntry, sameCtx, ctxErr, reqCtxErr,
          timerArmed, timerC, pc, i, resp, key, ret, log, calls, probe,
          asyncTimerChan, now, timerAt, waits, overlapped, client, goroutines, hist>>

config == <<RetryPolicy, RateLimiter, Cache, sameCtx>>
ctxs == <<ctxErr, reqCtxErr>>
timer == <<timerArmed, timerC>>

\* State of the direct uses of the RetryPolicy, outside Do.
direct == <<probe, asyncTimerChan, now, timerAt, waits, overlapped, client, goroutines, hist>>

\* State of the one-time initialization of the Client.
startup == <<client, goroutines, hist>>

\* No goroutine has called Do on a Client from NewClient.
StartupIdle ==
    /\ client = NewClient
    /\ goroutines = [g \in Goroutines |-> "idle"]
    /\ hist = [NoHist EXCEPT !.built = 1]

\* State of Do: everything but the policy, its timer and the direct uses.
doState == <<RateLimiter, Cache, sameCtx, ctxs, cacheEntry, pc, i, resp, key, ret, log, calls>>

\* One entry of log: the collaborator call op made at loop index idx, whether
\* it succeeded, the response and error it returned, the state of the two
\* contexts when it returned, and whether the call had blocked in a select.
\* A cache call also has the key and the response whose TTL it was given.
CacheEv(op, idx, ok, r, e, k, t) ==
    [op |-> op, i |-> idx, ok |-> ok, resp |-> r, err |-> e,
     ctxErr |-> ctxErr, reqCtxErr |-> reqCtxErr,
     blocked |-> pc \in {"wokenTimer", "wokenCtx"},
     key |-> k, ttlOf |-> t]

Ev(op, idx, ok, r, e) == CacheEv(op, idx, ok, r, e, "", NoResp)

\* client.go cacheKey: pagecache.Key(build.Name, req), for the one request
\* of the model.
cacheKey == "httpx:req"

(* ------------------------------------------------------ pure code pieces *)

\* client.go maxRetries.
maxRetries(p) == IF p.set THEN p.MaxRetries ELSE 1

\* Mutants of the loop condition: one attempt too many, one too few.
LoopCondInclusive(idx, max) == idx <= max
LoopCondShort(idx, max) == idx < max - 1

\* client.go Do, the loop condition i < maxRetries.
LoopCond(idx, max) == idx < max

\* Mutants of applyRateLimiter: the first retry is not throttled; the first
\* attempt is throttled too.
applyRateLimiterLate(count, limiter) == count > 1 /\ limiter
applyRateLimiterAlways(count, limiter) == limiter

\* client.go applyRateLimiter: the limiter is waited on when count > 0 and
\* a limiter is configured.
applyRateLimiter(count, limiter) == count > 0 /\ limiter

\* retry.go ShouldRetry: lookup in the unexported map.
ShouldRetry(p, r) == r.status \in p.retryableStatusCodeMap

\* Mutant of the retry test: every response is retried.
RetryTestAlways(p, r) == p.set

\* client.go Do, line 132: the retry test on a transport response.
RetryTest(p, r) == p.set /\ ShouldRetry(p, r)

\* Mutant of the cache-hit test: a hit is not recognised.
CacheHitIgnored(r, e) == FALSE

\* client.go Do, line 102: the cache-hit test.
CacheHit(r, e) == r # NoResp /\ e = NoErr

\* client.go Do, lines 118-130: the error returned for a failed transport
\* call with error e, given the request context's error.
TransportFailure(e, reqErr) == IF reqErr # "none" THEN {reqErr} ELSE e

\* Mutant of the wait error: the context's error is formatted, not wrapped.
WaitCanceledUnwrapped(e) == {ErrRetryCanceled}

\* retry.go Wait, line 120: the error of a canceled wait.
WaitCanceled(e) == {ErrRetryCanceled, e}

\* A time.Duration computation wraps in two's complement.
Wrap(x) ==
    LET m == 2 ^ DurationBits
        h == 2 ^ (DurationBits - 1)
    IN  ((x + h) % m) - h

\* retry.go RetryAfter, line 84: strconv.Atoi of the header value, as
\* [ok, n]: an optional sign followed by one or more digits.
RECURSIVE DigitsValue(_, _)
DigitsValue(s, acc) ==
    IF s = <<>> THEN acc ELSE DigitsValue(Tail(s), 10 * acc + DigitValue(Head(s)))

Atoi(s) ==
    LET signed == s # <<>> /\ Head(s) \in {"-", "+"}
        body == IF signed THEN Tail(s) ELSE s
    IN  IF body = <<>> \/ \E k \in DOMAIN body : ~IsDigit(body[k])
            THEN [ok |-> FALSE, n |-> 0]
            ELSE [ok |-> TRUE,
                  n |-> IF signed /\ Head(s) = "-"
                            THEN 0 - DigitsValue(body, 0) ELSE DigitsValue(body, 0)]

\* retry.go RetryAfter, lines 81-87: the base delay for header value h.
BaseDelay(p, h) ==
    IF h # <<>> /\ Atoi(h).ok THEN Wrap(Atoi(h).n * Second) ELSE p.MinRetryDelay

\* retry.go jitter, line 127: int64(float64(delay) * _jitterFraction), which
\* truncates toward zero.
jitterRange(delay) == IF delay >= 0 THEN delay \div 4 ELSE 0 - ((0 - delay) \div 4)

\* retry.go jitter, lines 128-130: the argument maxJitter - minJitter given to
\* the random source.
jitterBound(delay) ==
    Wrap(Wrap(delay + jitterRange(delay)) - Wrap(delay - jitterRange(delay)))

\* The random source xrand.IntChaChaCha(n, nil): the values of uniform(n),
\* an integer in [0, n); there is none for n <= 0 and the call fails.
uniform(n) == 0 .. (n - 1)

\* retry.go jitter: the values jitter(delay) can return.
jitter(delay) ==
    {Wrap(Wrap(delay - jitterRange(delay)) + u) : u \in uniform(jitterBound(delay))}

\* retry.go RetryAfter, lines 91-96: the clamp into [MinRetryDelay,
\* MaxRetryDelay]; the first case that matches is taken.
Clamp(p, d) ==
    IF d < p.MinRetryDelay THEN p.MinRetryDelay
    ELSE IF d > p.MaxRetryDelay THEN p.MaxRetryDelay
    ELSE d

\* retry.go RetryAfter: the outcomes for a response with Retry-After value h,
\* as [failed, delay]; the call fails when the random source does.
RetryAfter(p, h) ==
    LET delay == BaseDelay(p, h)
    IN  IF jitter(delay) = {}
            THEN {[failed |-> TRUE, delay |-> 0]}
            ELSE {[failed |-> FALSE, delay |-> Clamp(p, Wrap(delay + j))] : j \in jitter(delay)}

(* ------------------------------------------------------------------ Init *)

Init ==
    /\ RetryPolicy \in {NilRetryPolicy}
           \cup {DefaultRetryPolicy(m) : m \in -1..MaxRetriesBound}
           \cup {LiteralRetryPolicy(m) : m \in -1..MaxRetriesBound}
    /\ RateLimiter \in BOOLEAN
    /\ Cache \in BOOLEAN
    /\ cacheEntry \in IF Cache THEN {NoResp, StoredResp(200)} ELSE {NoResp}
    /\ sameCtx \in BOOLEAN
    /\ ctxErr = "none"
    /\ reqCtxErr = "none"
    \* DefaultRetryPolicy: time.NewTimer(0) is running and fires at once.
    /\ timerArmed = RetryPolicy.retryTimer
    /\ timerC = 0
    /\ pc = "start"
    /\ i = 0
    /\ resp = NoResp
    /\ key = ""
    /\ ret = [resp |-> NoResp, err |-> NoErr]
    /\ log = <<>>
    /\ calls = 1
    /\ probe = NoProbe
    /\ asyncTimerChan = TRUE
    /\ now = 0
    /\ timerAt = 0
    /\ waits = [w \in Waiters |-> IdleWait]
    /\ overlapped = FALSE
    /\ StartupIdle

(* ------------------------------------------------------- steps of Do *)

\* Do returns (r, e).
Return(r, e) ==
    /\ pc' = "done"
    /\ ret' = [resp |-> r, err |-> e]

\* Mutant of the end of Do: the response is returned without being stored.
AfterLoopNoStore(r) == Return(r, NoErr)

\* client.go Do, lines 143-153: after the loop, go to the cache store when a
\* cache is configured, else return (resp, nil).
AfterLoop(r) ==
    IF Cache
        THEN pc' = "store" /\ ret' = ret
        ELSE Return(r, NoErr)

\* client.go Do, lines 110-115: the loop test for index idx with resp = r,
\* then applyRateLimiter.
EnterLoop(idx, r) ==
    /\ i' = idx
    /\ resp' = r
    /\ IF LoopCond(idx, maxRetries(RetryPolicy))
           THEN /\ pc' = IF applyRateLimiter(idx, RateLimiter) THEN "limiter" ELSE "transport"
                /\ ret' = ret
           ELSE AfterLoop(r)

\* client.go Do, lines 86-98: initClient, setUserAgent, the locals.
DoBegin ==
    /\ pc = "start"
    /\ IF Cache
           THEN pc' = "cacheGet" /\ UNCHANGED <<i, resp, ret>>
           ELSE EnterLoop(0, NoResp)
    /\ UNCHANGED <<config, direct, key, cacheEntry, ctxs, timer, log, calls>>

\* client.go Do, lines 101-106: what Do does with the (r, e) of Cache.Get.
CacheLookup(r, e) ==
    IF CacheHit(r, e)
        THEN Return(r, NoErr) /\ i' = i /\ resp' = r
        ELSE EnterLoop(0, r)

\* client.go Do, lines 99-106: Cache.Get returns the stored response, or
\* nothing (with or without an error).
CacheGet ==
    /\ pc = "cacheGet"
    /\ \E out \in {"hit", "miss", "error"} :
         LET r == IF out = "hit" THEN cacheEntry ELSE NoResp
             e == IF out = "error" THEN CacheGetError ELSE NoErr
         IN  /\ out = "hit" => cacheEntry # NoResp
             /\ key' = cacheKey
             /\ log' = Append(log, CacheEv("Get", 0, e = NoErr, r, e, key', NoResp))
             /\ CacheLookup(r, e)
    /\ UNCHANGED <<config, direct, cacheEntry, ctxs, timer, calls>>

\* client.go Do, lines 113-115, and applyRateLimiter, lines 237-239:
\* RateLimiter.Wait(req.Context()) returns; it fails when the request's
\* context is done and may fail by itself.
LimiterWait ==
    /\ pc = "limiter"
    /\ \/ /\ reqCtxErr = "none"
          /\ log' = Append(log, Ev("Limiter", i, TRUE, NoResp, NoErr))
          /\ pc' = "transport"
          /\ ret' = ret
       \/ LET e == IF reqCtxErr # "none" THEN {reqCtxErr} ELSE LimiterError
          IN  /\ log' = Append(log, Ev("Limiter", i, FALSE, NoResp, e))
              /\ Return(NoResp, e)
    /\ UNCHANGED <<config, direct, key, cacheEntry, ctxs, timer, i, resp, calls>>

\* Mutant of the transport-error path: the failed attempt is retried.
OnTransportErrorRetry(e) ==
    /\ log' = Append(log, Ev("Transport", i, FALSE, NoResp, e))
    /\ EnterLoop(i + 1, NoResp)

\* client.go Do, lines 118-130: the transport call failed with error e.
OnTransportError(e) ==
    /\ log' = Append(log, Ev("Transport", i, FALSE, NoResp, e))
    /\ resp' = NoResp
    /\ i' = i
    /\ Return(NoResp, TransportFailure(e, reqCtxErr))

\* retry.go Wait, line 112: the RetryAfter(resp) that opens Wait fails in its
\* random draw, and the call of Wait does not return.
RetryAfterFails(p, r) == \E o \in RetryAfter(p, r.retryAfter) : o.failed

\* client.go Do, lines 132-140: the transport call returned response r; when
\* it is retryable Wait is called, which first computes RetryAfter(r).
OnTransportResponse(r) ==
    /\ log' = IF RetryPolicy.set
                  THEN log \o <<Ev("Transport", i, TRUE, r, NoErr),
                                Ev("ShouldRetry", i, ShouldRetry(RetryPolicy, r), r, NoErr)>>
                  ELSE Append(log, Ev("Transport", i, TRUE, r, NoErr))
    /\ resp' = r
    /\ i' = i
    /\ IF RetryTest(RetryPolicy, r)
           THEN pc' = (IF RetryAfterFails(RetryPolicy, r) THEN "panic" ELSE "wait") /\ ret' = ret
           ELSE AfterLoop(r)

\* client.go Do, line 117: c.client.Do(req) returns a response or an error.
Transport ==
    /\ pc = "transport"
    /\ \/ \E s \in Statuses : \E h \in RetryAfterValues(s) :
            /\ reqCtxErr = "none"
            /\ OnTransportResponse([TransportResp(calls, i, s) EXCEPT !.retryAfter = h])
       \/ \E e \in {NetError, TimeoutError}
                   \cup (IF reqCtxErr # "none" THEN {RequestCtxError(reqCtxErr)} ELSE {}) :
            OnTransportError(e)
    /\ UNCHANGED <<config, direct, key, cacheEntry, ctxs, timer, calls>>

\* retry.go Wait, lines 114-121: retryTimer.Reset(delay), then the select: a case that is ready is taken (either one when both are), else
\* the call blocks.  Reset leaves a tick that is already in the channel.
WaitBegin ==
    /\ pc = "wait"
    /\ IF ~RetryPolicy.retryTimer
           THEN pc' = "panic" /\ UNCHANGED <<timerArmed, timerC>>
           ELSE /\ timerArmed' = TRUE
                /\ \/ timerC = 1 /\ timerC' = 0 /\ pc' = "tookTimer"
                   \/ ctxErr # "none" /\ timerC' = timerC /\ pc' = "tookCtx"
                   \/ timerC = 0 /\ ctxErr = "none" /\ timerC' = timerC /\ pc' = "waitBlocked"
    /\ UNCHANGED <<config, direct, key, cacheEntry, ctxs, i, resp, ret, log, calls>>

\* retry.go Wait, lines 117-118, and client.go Do, line 137: Wait returns nil
\* and the loop continues with i++.
WaitReturn ==
    /\ pc \in {"tookTimer", "wokenTimer"}
    /\ log' = Append(log, Ev("Wait", i, TRUE, resp, NoErr))
    /\ EnterLoop(i + 1, resp)
    /\ UNCHANGED <<config, direct, key, cacheEntry, ctxs, timer, calls>>

\* retry.go Wait, lines 119-120, and client.go Do, lines 133-135: the wait
\* was canceled and Do returns its error.
WaitAbort ==
    /\ pc \in {"tookCtx", "wokenCtx"}
    /\ log' = Append(log, Ev("Wait", i, FALSE, resp, WaitCanceled(ctxErr)))
    /\ Return(NoResp, WaitCanceled(ctxErr))
    /\ UNCHANGED <<config, direct, key, cacheEntry, ctxs, timer, i, resp, calls>>

\* client.go Do, lines 143-153: policy.TTL(resp) and Cache.Set.  With a nil
\* resp (the loop never ran) the TTL computation of the cache package may
\* dereference it.
CacheSet ==
    /\ pc = "store"
    /\ \/ /\ log' = Append(log, CacheEv("Set", i, TRUE, resp, NoErr, key, resp))
          /\ cacheEntry' = resp
          /\ Return(resp, NoErr)
       \/ /\ log' = Append(log, CacheEv("Set", i, FALSE, resp, CacheSetError, key, resp))
          /\ cacheEntry' = cacheEntry
          /\ Return(NoResp, CacheSetError)
       \/ /\ resp = NoResp
          /\ pc' = "panic"
          /\ UNCHANGED <<log, cacheEntry, ret>>
    /\ UNCHANGED <<config, direct, key, ctxs, timer, i, resp, calls>>

(* ------------------------------------------------------- the environment *)

\* The retry timer fires: the tick is handed to a Wait blocked in its
\* select, else put in the channel unless one is already there.
TimerFire ==
    /\ timerArmed
    /\ timerArmed' = FALSE
    /\ IF pc = "waitBlocked"
           THEN pc' = "wokenTimer" /\ timerC' = timerC
           ELSE pc' = pc /\ timerC' = 1
    /\ UNCHANGED <<config, direct, key, cacheEntry, ctxs, i, resp, ret, log, calls>>

\* The context passed to Do is canceled or its deadline passes; a Wait
\* blocked in its select is woken by ctx.Done().
CancelCtx ==
    /\ pc \notin {"done", "panic"}
    /\ ctxErr = "none"
    /\ \E e \in CtxErrors :
         /\ ctxErr' = e
         /\ reqCtxErr' = IF sameCtx THEN e ELSE reqCtxErr
    /\ pc' = IF pc = "waitBlocked" THEN "wokenCtx" ELSE pc
    /\ UNCHANGED <<config, direct, key, cacheEntry, timer, i, resp, ret, log, calls>>

\* The request's own context, when it is another one, is canceled.
CancelReqCtx ==
    /\ pc \notin {"done", "panic"}
    /\ ~sameCtx
    /\ reqCtxErr = "none"
    /\ \E e \in CtxErrors : reqCtxErr' = e
    /\ UNCHANGED <<config, direct, key, cacheEntry, ctxErr, timer, pc, i, resp, ret, log, calls>>

\* The caller starts the next Do call, with fresh contexts.
NewCall ==
    /\ pc = "done"
    /\ calls < MaxCalls
    /\ calls' = calls + 1
    /\ pc' = "start"
    /\ i' = 0
    /\ resp' = NoResp
    /\ key' = ""
    /\ ret' = [resp |-> NoResp, err |-> NoErr]
    /\ log' = <<>>
    /\ ctxErr' = "none"
    /\ reqCtxErr' = "none"
    /\ UNCHANGED <<config, direct, cacheEntry, timer>>

Next ==
    \/ DoBegin
    \/ CacheGet
    \/ LimiterWait
    \/ Transport
    \/ WaitBegin
    \/ WaitReturn
    \/ WaitAbort
    \/ CacheSet
    \/ TimerFire
    \/ CancelCtx
    \/ CancelReqCtx
    \/ NewCall

Spec == Init /\ [][Next]_vars

\* Every collaborator call of Do returns, every step of Do is taken, and the
\* retry timer fires once it is armed.
Fairness ==
    /\ WF_vars(DoBegin)
    /\ WF_vars(CacheGet)
    /\ WF_vars(LimiterWait)
    /\ WF_vars(Transport)
    /\ WF_vars(WaitBegin)
    /\ WF_vars(WaitReturn)
    /\ WF_vars(WaitAbort)
    /\ WF_vars(CacheSet)
    /\ WF_vars(TimerFire)

SpecFair == Init /\ [][Next]_vars /\ Fairness

(* ------------------------------- direct calls of the policy's functions *)

\* The policies probed: built by DefaultRetryPolicy or as a struct literal,
\* the exported fields as built or assigned afterwards.
ProbeCodes == {DefaultRetryableStatusCodes, {404, 503}, {}}
ProbeDelays == {<<DefaultMinRetryDelay, DefaultMaxRetryDelay>>, <<0, 0>>,
                <<3, DefaultMaxRetryDelay>>,
                <<2 * Second, 10 * Second>>, <<10 * Second, 10 * Second>>,
                <<10 * Second, 2 * Second>>}
ProbePolicies ==
    {WithFields(p, c, d[1], d[2]) :
        p \in {DefaultRetryPolicy(4), LiteralRetryPolicy(4)},
        c \in ProbeCodes, d \in ProbeDelays}

\* The responses probed: status codes and Retry-After header values.
ProbeStatuses == {200, 299, 300, 404, 408, 409, 412, 423, 429, 502, 503, 504}
ProbeHeaders == {<<>>, <<"x">>, <<"1", "x">>, <<"0">>, <<"-", "1">>, <<"-", "1", "0">>,
                 <<"1">>, <<"+", "2">>, <<"5">>, <<"1", "0">>, <<"3", "0">>,
                 <<"4", "0">>, <<"2", "0", "0">>, <<"3", "0", "0">>}

InitRetryPolicy ==
    /\ RetryPolicy \in ProbePolicies
    /\ RateLimiter = FALSE
    /\ Cache = FALSE
    /\ cacheEntry = NoResp
    /\ sameCtx = TRUE
    /\ ctxErr = "none"
    /\ reqCtxErr = "none"
    /\ timerArmed = RetryPolicy.retryTimer
    /\ timerC = 0
    /\ pc = "start"
    /\ i = 0
    /\ resp = NoResp
    /\ key = ""
    /\ ret = [resp |-> NoResp, err |-> NoErr]
    /\ log = <<>>
    /\ calls = 1
    /\ probe = NoProbe
    /\ asyncTimerChan = TRUE
    /\ now = 0
    /\ timerAt = 0
    /\ waits = [w \in Waiters |-> IdleWait]
    /\ overlapped = FALSE
    /\ StartupIdle

\* retry.go ShouldRetry called on a response with status s.
CallShouldRetry ==
    /\ probe = NoProbe
    /\ \E s \in ProbeStatuses :
           probe' = [NoProbe EXCEPT !.op = "ShouldRetry", !.status = s,
                        !.retry = ShouldRetry(RetryPolicy, TransportResp(1, 0, s))]
    /\ UNCHANGED <<RetryPolicy, doState, timer, asyncTimerChan, now, timerAt, waits, overlapped, startup>>

\* retry.go RetryAfter called on a response with Retry-After value h.
CallRetryAfter ==
    /\ probe = NoProbe
    /\ \E h \in ProbeHeaders : \E o \in RetryAfter(RetryPolicy, h) :
           probe' = [NoProbe EXCEPT !.op = "RetryAfter", !.header = h,
                        !.failed = o.failed, !.delay = o.delay]
    /\ UNCHANGED <<RetryPolicy, doState, timer, asyncTimerChan, now, timerAt, waits, overlapped, startup>>

NextRetryPolicy ==
    \/ CallShouldRetry
    \/ CallRetryAfter

SpecRetryPolicy == InitRetryPolicy /\ [][NextRetryPolicy]_vars

(* --------------------------------------- direct calls of RetryPolicy.Wait *)

\* The contexts a Wait is called with at instant t: context.Background, a
\* WithCancel context (canceled already or not), a WithTimeout context.
Timeouts == {2, 9}
WaitCtxs(t) ==
    {[kind |-> "background", err |-> "none", deadline |-> 0],
     [kind |-> "cancel", err |-> "none", deadline |-> 0],
     [kind |-> "canceled", err |-> "context.Canceled", deadline |-> 0]}
    \cup {[kind |-> "deadline", err |-> "none", deadline |-> t + d] : d \in Timeouts}

\* The number of Wait calls begun so far.
WaitsBegun == waits[1].n + waits[2].n

\* The Retry-After values of the responses Wait is called with.
WaitHeaders == {<<>>}

InitWait ==
    /\ RetryPolicy = DefaultRetryPolicy(4)
    /\ RateLimiter = FALSE
    /\ Cache = FALSE
    /\ cacheEntry = NoResp
    /\ sameCtx = TRUE
    /\ ctxErr = "none"
    /\ reqCtxErr = "none"
    \* DefaultRetryPolicy: time.NewTimer(0) is running and due at once.
    /\ timerArmed = RetryPolicy.retryTimer
    /\ timerC = 0
    /\ pc = "start"
    /\ i = 0
    /\ resp = NoResp
    /\ key = ""
    /\ ret = [resp |-> NoResp, err |-> NoErr]
    /\ log = <<>>
    /\ calls = 1
    /\ probe = NoProbe
    /\ asyncTimerChan \in BOOLEAN
    /\ now = 0
    /\ timerAt = 0
    /\ waits = [w \in Waiters |-> IdleWait]
    /\ overlapped = FALSE
    /\ StartupIdle

\* Goroutine w has returned from Wait with error e (nil: {}).
WaitReturned(rec, e) ==
    [rec EXCEPT !.pc = "returned", !.ret = e, !.retAt = now - rec.start, !.start = 0,
                !.deadline = IF rec.kind = "deadline" THEN rec.deadline - rec.start ELSE 0]

\* retry.go Wait, lines 112-121: goroutine w calls Wait. RetryAfter gives the
\* delay, Reset re-arms the shared timer (and, on a build with unbuffered
\* timer channels, discards a tick not yet received), then the select takes
\* a case that is ready, any of them when both are, or blocks.
WaitCall(w) ==
    /\ waits[w].pc \in {"idle", "returned"}
    /\ WaitsBegun < MaxWaits
    /\ \E c \in WaitCtxs(now) : \E h \in WaitHeaders : \E o \in RetryAfter(RetryPolicy, h) :
           LET tick == IF asyncTimerChan THEN timerC ELSE 0
               rec == [pc |-> "blocked", n |-> waits[w].n + 1, kind |-> c.kind,
                       ctxErr |-> c.err, deadline |-> c.deadline, start |-> now,
                       delay |-> o.delay, ret |-> NoErr, retAt |-> 0]
           IN  /\ ~o.failed
               /\ timerArmed' = TRUE
               /\ timerAt' = now + o.delay
               /\ \/ /\ tick = 1
                     /\ timerC' = 0
                     /\ waits' = [waits EXCEPT ![w] = WaitReturned(rec, NoErr)]
                  \/ /\ c.err # "none"
                     /\ timerC' = tick
                     /\ waits' = [waits EXCEPT ![w] = WaitReturned(rec, WaitCanceled(c.err))]
                  \/ /\ tick = 0 /\ c.err = "none"
                     /\ timerC' = tick
                     /\ waits' = [waits EXCEPT ![w] = rec]
    /\ overlapped' = (overlapped \/ \E v \in Waiters \ {w} : waits[v].pc = "blocked")
    /\ UNCHANGED <<RetryPolicy, doState, probe, asyncTimerChan, now, startup>>

\* The shared retryTimer is due and fires: one goroutine blocked in Wait's
\* select receives the tick and returns nil (retry.go lines 117-118); with
\* none blocked the tick stays in the channel.
RetryTimerFire ==
    /\ timerArmed /\ timerAt <= now
    /\ timerArmed' = FALSE
    /\ IF \E w \in Waiters : waits[w].pc = "blocked"
           THEN /\ \E w \in Waiters :
                      /\ waits[w].pc = "blocked"
                      /\ waits' = [waits EXCEPT ![w] = WaitReturned(waits[w], NoErr)]
                /\ timerC' = timerC
           ELSE timerC' = 1 /\ waits' = waits
    /\ UNCHANGED <<RetryPolicy, doState, probe, asyncTimerChan, now, timerAt, overlapped, startup>>

\* retry.go Wait, lines 119-120: the context of goroutine w, blocked in the
\* select, is done with error e and Wait returns the wrapped error.
WaitCtxDone(w, e) ==
    /\ waits' = [waits EXCEPT ![w] = WaitReturned([waits[w] EXCEPT !.ctxErr = e], WaitCanceled(e))]
    /\ UNCHANGED <<RetryPolicy, doState, timer, probe, asyncTimerChan, now, timerAt, overlapped, startup>>

\* The caller cancels the context of a blocked Wait.
WaitCtxCancel(w) ==
    /\ waits[w].pc = "blocked" /\ waits[w].kind = "cancel"
    /\ WaitCtxDone(w, "context.Canceled")

\* The deadline of the context of a blocked Wait passes.
WaitCtxDeadline(w) ==
    /\ waits[w].pc = "blocked" /\ waits[w].kind = "deadline"
    /\ waits[w].deadline <= now
    /\ WaitCtxDone(w, "context.DeadlineExceeded")

\* Time passes, by a quarter of a second, when neither the timer nor a
\* deadline is due.
Tick ==
    /\ now < MaxTime
    /\ ~(timerArmed /\ timerAt <= now)
    /\ \A w \in Waiters :
           ~(waits[w].pc = "blocked" /\ waits[w].kind = "deadline" /\ waits[w].deadline <= now)
    /\ now' = now + 1
    /\ UNCHANGED <<RetryPolicy, doState, timer, probe, asyncTimerChan, timerAt, waits, overlapped, startup>>

NextWait ==
    \/ \E w \in Waiters : WaitCall(w)
    \/ RetryTimerFire
    \/ \E w \in Waiters : WaitCtxCancel(w)
    \/ \E w \in Waiters : WaitCtxDeadline(w)
    \/ Tick

SpecWait == InitWait /\ [][NextWait]_vars

(* ------------------------------------------ helpers of requests and responses *)

\* Text is a sequence of characters. Concat joins the texts of a sequence.
RECURSIVE Concat(_)
Concat(ss) == IF ss = <<>> THEN <<>> ELSE Head(ss) \o Concat(Tail(ss))

\* Mutant of the rune filter of String: parentheses are kept.
KeepRuneAll(r) == TRUE

\* useragent String, line 74: the runes of a comment that are written.
KeepRune(r) == r # "(" /\ r # ")"

\* useragent String, lines 68-78: the comments from the i-th on, each but
\* the first after separator.Colon and separator.Space.
RECURSIVE WriteComments(_, _)
WriteComments(comments, idx) ==
    IF idx > Len(comments) THEN <<>>
    ELSE (IF idx > 1 THEN <<";", " ">> ELSE <<>>)
             \o SelectSeq(comments[idx], KeepRune)
             \o WriteComments(comments, idx + 1)

\* A UserAgent value; set = FALSE is the nil pointer.
NilUserAgent == [set |-> FALSE, Token |-> <<>>, Version |-> <<>>, Comment |-> <<>>]
UserAgent(token, version, comment) ==
    [set |-> TRUE, Token |-> token, Version |-> version, Comment |-> comment]

\* useragent String.
String(ua) ==
    IF ~ua.set \/ ua.Token = <<>> \/ ua.Version = <<>> THEN <<>>
    ELSE ua.Token \o <<"/">> \o ua.Version
             \o (IF Len(ua.Comment) > 0
                     THEN <<" ", "(">> \o WriteComments(ua.Comment, 1) \o <<")">>
                     ELSE <<>>)

\* Mutant of IsSuccess: 300 counts as a success.
IsSuccessInclusive(r) == r.status >= 200 /\ r.status <= 300

\* response IsSuccess: http.StatusOK <= StatusCode < http.StatusMultipleChoices.
IsSuccess(r) == r.status >= 200 /\ r.status < 300

\* An http.Header is a function from the keys present to their value.
\* textproto.CanonicalMIMEHeaderKey, for the keys used here.
HeaderKeys == {"User-Agent", "user-agent", "Accept", "Content-Type", "content-type",
               "X-Id", "Idempotency-Key"}
CanonicalMIMEHeaderKey(k) ==
    CASE k = "user-agent" -> "User-Agent"
      [] k = "content-type" -> "Content-Type"
      [] OTHER -> k

\* http.Header.Get and http.Header.Set.
HeaderGet(h, k) ==
    IF CanonicalMIMEHeaderKey(k) \in DOMAIN h THEN h[CanonicalMIMEHeaderKey(k)] ELSE <<>>
HeaderSet(h, k, v) ==
    [x \in DOMAIN h \cup {CanonicalMIMEHeaderKey(k)} |->
        IF x = CanonicalMIMEHeaderKey(k) THEN v ELSE h[x]]

\* Mutant of setUserAgent: the header is set whatever the request has.
setUserAgentAlways(ua, h) == HeaderSet(h, "User-Agent", String(ua))

\* client.go setUserAgent: the request's header after the call.
setUserAgent(ua, h) ==
    IF HeaderGet(h, "User-Agent") = <<>>
        THEN HeaderSet(h, "User-Agent", String(ua))
        ELSE h

\* request.go: ErrRequest and ErrInvalidMethod.
ErrRequest == "unable to create request"
ErrInvalidMethod == "invalid HTTP method"

\* request NewRequest, lines 238-248: validMethods.
validMethods == {"GET", "HEAD", "POST", "PUT", "PATCH", "DELETE", "CONNECT", "OPTIONS", "TRACE"}

\* The methods and URLs probed. net/http takes a method that is a token,
\* url.Parse rejects "::".
ProbeMethods == {"GET", "POST", "PATCH", "DELETE", "get", "invalid_method", "", "BAD METHOD"}
ProbeURLs == {"https://example.com", "::"}
IsToken(m) == m \notin {"", "BAD METHOD"}
ParseOK(u) == u # "::"

\* A header without keys, and a request that was not built.
EmptyHeader == [k \in {} |-> <<>>]
NoRequest == [ok |-> FALSE, err |-> {}, Method |-> "", URL |-> "", Header |-> EmptyHeader]

\* http.NewRequestWithContext: an empty method stands for GET, the method
\* has to be a token and the URL has to parse; the header starts empty.
NewRequestWithContext(method, url) ==
    LET m == IF method = "" THEN "GET" ELSE method
    IN  IF ~IsToken(m) THEN [NoRequest EXCEPT !.err = {"net/http: invalid method"}]
        ELSE IF ~ParseOK(url) THEN [NoRequest EXCEPT !.err = {"url: parse error"}]
        ELSE [ok |-> TRUE, err |-> {}, Method |-> m, URL |-> url, Header |-> EmptyHeader]

\* request NewRequest, lines 165-167 and 270-272: Header.Set of every
\* supplied header, in the order the map is ranged over, which is any order.
RECURSIVE SetAll(_, _, _)
SetAll(h, headers, keys) ==
    IF keys = {} THEN {h}
    ELSE UNION {SetAll(HeaderSet(h, k, headers[k]), headers, keys \ {k}) : k \in keys}

\* request NewRequest: the outcomes of the call. The repository holds two
\* definitions: the one of lines 237-277 tests the method against
\* validMethods first (validated), the one of lines 159-170 does not.
NewRequest(validated, method, url, headers) ==
    IF validated /\ method \notin validMethods
        THEN {[NoRequest EXCEPT !.err = {ErrRequest, ErrInvalidMethod}]}
        ELSE LET req == NewRequestWithContext(method, url)
             IN  IF ~req.ok
                     THEN {[NoRequest EXCEPT !.err = {ErrRequest} \cup req.err]}
                     ELSE {[req EXCEPT !.Header = h] :
                               h \in SetAll(req.Header, headers, DOMAIN headers)}

\* request.go: ErrIdempotencyKey.
ErrIdempotencyKey == "unable to generate idempotency key"

\* strings.TrimSpace: the text without its leading and trailing white space.
IsSpace(ch) == ch \in {" ", "\t", "\n"}
RECURSIVE TrimLeft(_)
TrimLeft(s) == IF s # <<>> /\ IsSpace(Head(s)) THEN TrimLeft(Tail(s)) ELSE s
RECURSIVE TrimRight(_)
TrimRight(s) ==
    IF s # <<>> /\ IsSpace(s[Len(s)]) THEN TrimRight(SubSeq(s, 1, Len(s) - 1)) ELSE s
TrimSpace(s) == TrimRight(TrimLeft(s))

\* xuuid.New: a version 4 UUID as text, or an error of the random source.
NewUUID == <<"u", "-", "4">>
UUIDError == "uuid: random source failed"

\* Mutant of the method test of SetIdempotencyKey: every method gets the
\* header.
TakesIdempotencyKeyAlways(method) == TRUE

\* request SetIdempotencyKey, line 302: the methods that get the header.
TakesIdempotencyKey(method) == method = "POST" \/ method = "PATCH"

\* request SetIdempotencyKey: the error returned and the request's header
\* after the call, for a request with the given method and header; uuidOK
\* says whether xuuid.New succeeds when it is called.
SetIdempotencyKey(method, h, k, uuidOK) ==
    IF TrimSpace(k) = <<>> /\ ~uuidOK
        THEN [err |-> {ErrIdempotencyKey, UUIDError}, Header |-> h]
        ELSE LET used == IF TrimSpace(k) = <<>> THEN NewUUID ELSE k
             IN  [err |-> {},
                  Header |-> IF TakesIdempotencyKey(method)
                                 THEN HeaderSet(h, "Idempotency-Key", used)
                                 ELSE h]

\* The idempotency keys probed.
ProbeKeys == {<<>>, <<" ">>, <<" ", "\t">>, <<"k">>, <<" ", "k", " ">>}

\* response.go: the errors of the response helpers.
ErrCannotDecodeJSON == "cannot decode JSON response"
ErrCannotEncodeJSON == "cannot encode JSON request"
ErrCannotDrainResponse == "cannot drain response body"
ErrCannotCloseResponse == "cannot close response body"

\* A response body: its content, whether reading it fails before EOF and
\* whether Close fails.
ProbeBodies == [data : {<<>>, <<"x">>}, readFails : BOOLEAN, closeFails : BOOLEAN]
ReadError == "read error"
CloseFailure == "mock close error"

\* Mutant of the error of a failed Close: the close error is not wrapped.
CloseErrorBare(e) == {ErrCannotCloseResponse}

\* response DrainResponseBody, lines 113 and 117: the errors returned.
DrainError(e) == {ErrCannotDrainResponse, e}
CloseError(e) == {ErrCannotCloseResponse, e}

\* response DrainResponseBody: the error returned, whether the body was read
\* to EOF and the number of calls of Body.Close.
DrainResponseBody(body) ==
    IF body.readFails THEN [err |-> DrainError(ReadError), eof |-> FALSE, closes |-> 0]
    ELSE IF body.closeFails THEN [err |-> CloseError(CloseFailure), eof |-> TRUE, closes |-> 1]
    ELSE [err |-> {}, eof |-> TRUE, closes |-> 1]

\* The values given to WriteJSON: booleans, small numbers, texts, nil, and
\* a channel and a function, which encoding/json cannot encode.
ProbeJSON ==
    {[kind |-> "bool", v |-> b] : b \in {0, 1}}
    \cup {[kind |-> "number", v |-> n] : n \in {0, 7}}
    \cup {[kind |-> "null", v |-> 0], [kind |-> "chan", v |-> 0], [kind |-> "func", v |-> 0]}
Encodable(val) == val.kind \notin {"chan", "func"}

\* json.Marshal of an encodable value, as text.
Marshal(val) ==
    CASE val.kind = "bool" -> IF val.v = 1 THEN <<"t", "r", "u", "e">>
                                           ELSE <<"f", "a", "l", "s", "e">>
      [] val.kind = "number" -> <<Digits[val.v + 1]>>
      [] OTHER -> <<"n", "u", "l", "l">>

\* json.Decoder.Decode of the text of a body: the value whose encoding, with
\* or without the final newline, it is.
Decode(text) ==
    LET vs == {v \in ProbeJSON : Encodable(v) /\ text \in {Marshal(v), Marshal(v) \o <<"\n">>}}
    IN  IF vs = {} THEN [ok |-> FALSE, val |-> [kind |-> "null", v |-> 0]]
        ELSE [ok |-> TRUE, val |-> CHOOSE v \in vs : TRUE]

\* response ReadJSON: the error and the value decoded from the body.
ReadJSON(text) ==
    IF Decode(text).ok THEN [err |-> {}, val |-> Decode(text).val]
    ELSE [err |-> {ErrCannotDecodeJSON, "json: syntax error"}, val |-> Decode(text).val]

\* A *bytes.Buffer; set = FALSE is the nil pointer.
NilBuffer == [set |-> FALSE, bytes |-> <<>>]

\* json.Encoder.Encode(val) on writer w: an unsupported value is an error
\* before anything is written; else the encoding and a newline are written
\* to w, and Write on a nil *bytes.Buffer is a nil dereference.
Encode(w, val) ==
    IF ~Encodable(val) THEN [outcome |-> "error", w |-> w, err |-> {"json: unsupported type"}]
    ELSE IF ~w.set THEN [outcome |-> "panic", w |-> w, err |-> {}]
    ELSE [outcome |-> "ok", w |-> [w EXCEPT !.bytes = @ \o Marshal(val) \o <<"\n">>], err |-> {}]

\* response WriteJSON, lines 91-102: payload is declared and never
\* allocated, the encoder writes to it, and payload is returned.
WriteJSON(val) ==
    LET payload == NilBuffer
        e == Encode(payload, val)
    IN  IF e.outcome = "panic" THEN [outcome |-> "panic", buf |-> NilBuffer, err |-> {}]
        ELSE IF e.outcome = "error"
            THEN [outcome |-> "returned", buf |-> NilBuffer,
                  err |-> {ErrCannotEncodeJSON} \cup e.err]
        ELSE [outcome |-> "returned", buf |-> e.w, err |-> {}]

\* The UserAgent values, status codes and request headers probed.
ProbeTexts == {<<>>, <<"h">>, <<"(", "h">>}
ProbeComments == {<<>>, <<"a">>, <<"(", "b", ")">>, <<")", "(">>}
ProbeUserAgents ==
    {NilUserAgent}
    \cup {UserAgent(tk, v, <<>>) : tk \in ProbeTexts, v \in ProbeTexts}
    \cup {UserAgent(tk, v, <<c1>>) : tk \in ProbeTexts, v \in ProbeTexts, c1 \in ProbeComments}
    \cup {UserAgent(tk, v, <<c1, c2>>) :
              tk \in {<<>>, <<"h">>}, v \in {<<"1">>}, c1 \in ProbeComments, c2 \in ProbeComments}
SuccessStatuses == {100, 199, 200, 204, 299, 300, 301, 400, 404, 500}
ProbeValues == {<<>>, <<"c">>}
ProbeHeaderMaps(keys) ==
    UNION {[present -> ProbeValues] : present \in SUBSET keys}

InitHelpers ==
    /\ RetryPolicy = DefaultRetryPolicy(4)
    /\ RateLimiter = FALSE
    /\ Cache = FALSE
    /\ cacheEntry = NoResp
    /\ sameCtx = TRUE
    /\ ctxErr = "none"
    /\ reqCtxErr = "none"
    /\ timerArmed = RetryPolicy.retryTimer
    /\ timerC = 0
    /\ pc = "start"
    /\ i = 0
    /\ resp = NoResp
    /\ key = ""
    /\ ret = [resp |-> NoResp, err |-> NoErr]
    /\ log = <<>>
    /\ calls = 1
    /\ probe = NoProbe
    /\ asyncTimerChan = TRUE
    /\ now = 0
    /\ timerAt = 0
    /\ waits = [w \in Waiters |-> IdleWait]
    /\ overlapped = FALSE
    /\ StartupIdle

\* Everything but probe.
notProbe == <<RetryPolicy, doState, timer, asyncTimerChan, now, timerAt, waits, overlapped, startup>>

\* useragent String called on a UserAgent.
CallString ==
    /\ probe = NoProbe
    /\ \E ua \in ProbeUserAgents :
           probe' = [op |-> "String", ua |-> ua, out |-> String(ua)]
    /\ UNCHANGED notProbe

\* response IsSuccess called on a response with status s.
CallIsSuccess ==
    /\ probe = NoProbe
    /\ \E s \in SuccessStatuses :
           probe' = [op |-> "IsSuccess", status |-> s,
                     out |-> IsSuccess(TransportResp(1, 0, s))]
    /\ UNCHANGED notProbe

\* client.go Do, line 88: Do calls setUserAgent on the request; nothing
\* else in Do writes to the request's header.
CallSetUserAgent ==
    /\ probe = NoProbe
    /\ \E ua \in {NilUserAgent, UserAgent(<<"h">>, <<"1">>, <<>>)} :
       \E h \in ProbeHeaderMaps({"User-Agent", "Accept", "X-Id"}) :
           probe' = [op |-> "setUserAgent", ua |-> ua, before |-> h,
                     after |-> setUserAgent(ua, h)]
    /\ UNCHANGED notProbe

\* request NewRequest called with a method, a URL and headers.
CallNewRequest ==
    /\ probe = NoProbe
    /\ \E validated \in BOOLEAN : \E m \in ProbeMethods : \E u \in ProbeURLs :
       \E h \in ProbeHeaderMaps({"Content-Type", "content-type", "X-Id"}) :
       \E r \in NewRequest(validated, m, u, h) :
           probe' = [op |-> "NewRequest", validated |-> validated, method |-> m,
                     url |-> u, headers |-> h, out |-> r]
    /\ UNCHANGED notProbe

\* request SetIdempotencyKey called on a request.
CallSetIdempotencyKey ==
    /\ probe = NoProbe
    /\ \E m \in {"POST", "PATCH", "GET", "PUT", "post"} : \E k \in ProbeKeys :
       \E h \in ProbeHeaderMaps({"Idempotency-Key", "X-Id"}) : \E uuidOK \in BOOLEAN :
           probe' = [op |-> "SetIdempotencyKey", method |-> m, key |-> k, before |-> h,
                     uuidOK |-> uuidOK, out |-> SetIdempotencyKey(m, h, k, uuidOK)]
    /\ UNCHANGED notProbe

\* response DrainResponseBody called on a response with the given body.
CallDrainResponseBody ==
    /\ probe = NoProbe
    /\ \E b \in ProbeBodies :
           probe' = [op |-> "DrainResponseBody", body |-> b, out |-> DrainResponseBody(b)]
    /\ UNCHANGED notProbe

\* response WriteJSON called on a value.
CallWriteJSON ==
    /\ probe = NoProbe
    /\ \E val \in ProbeJSON :
           probe' = [op |-> "WriteJSON", val |-> val, out |-> WriteJSON(val)]
    /\ UNCHANGED notProbe

\* response ReadJSON called on a response whose body is an encoding, or not.
CallReadJSON ==
    /\ probe = NoProbe
    /\ \E text \in {Marshal(v) \o <<"\n">> : v \in {w \in ProbeJSON : Encodable(w)}}
                       \cup {<<>>, <<"{">>} :
           probe' = [op |-> "ReadJSON", text |-> text, out |-> ReadJSON(text)]
    /\ UNCHANGED notProbe

NextHelpers ==
    \/ CallString
    \/ CallIsSuccess
    \/ CallSetUserAgent
    \/ CallNewRequest
    \/ CallSetIdempotencyKey
    \/ CallDrainResponseBody
    \/ CallWriteJSON
    \/ CallReadJSON

SpecHelpers == InitHelpers /\ [][NextHelpers]_vars

(* ----------------------------------- concurrent Do calls and initClient *)

\* The values the caller gives Client.Timeout before the first Do.
ClientTimeouts == {0, 5 * Second, DefaultTimeout, 30 * Second}

InitClients ==
    /\ RetryPolicy = DefaultRetryPolicy(4)
    /\ RateLimiter = FALSE
    /\ Cache = FALSE
    /\ cacheEntry = NoResp
    /\ sameCtx = TRUE
    /\ ctxErr = "none"
    /\ reqCtxErr = "none"
    /\ timerArmed = RetryPolicy.retryTimer
    /\ timerC = 0
    /\ pc = "start"
    /\ i = 0
    /\ resp = NoResp
    /\ key = ""
    /\ ret = [resp |-> NoResp, err |-> NoErr]
    /\ log = <<>>
    /\ calls = 1
    /\ probe = NoProbe
    /\ asyncTimerChan = TRUE
    /\ now = 0
    /\ timerAt = 0
    /\ waits = [w \in Waiters |-> IdleWait]
    /\ overlapped = FALSE
    /\ \E made \in {NewClient, ZeroClient} : \E t \in ClientTimeouts :
       \E d \in BOOLEAN : \E l \in BOOLEAN :
           /\ client = [made EXCEPT !.Timeout = t, !.Debug = d, !.Logger = l]
           /\ hist = [NoHist EXCEPT !.built = IF made.client.set THEN 1 ELSE 0]
    /\ goroutines = [g \in Goroutines |-> "idle"]

\* Mutant of the sync.Once test: the body is run whatever done says.
OnceNeededAlways(o) == TRUE

\* sync.Once: the function is run when done is not set yet.
OnceNeeded(o) == ~o.done

\* The rest of the state, which the initialization leaves alone.
notStartup == <<RetryPolicy, doState, timer, probe, asyncTimerChan, now, timerAt, waits, overlapped>>

\* client.go Do, line 87: goroutine g calls Do, which calls initClient.
DoCall(g) ==
    /\ goroutines[g] = "idle"
    /\ goroutines' = [goroutines EXCEPT ![g] = "once"]
    /\ UNCHANGED <<notStartup, client, hist>>

\* client.go initClient, line 196: initOnce.Do tests done without the lock
\* and returns when it is set; otherwise it goes for the mutex.
OnceDo(g) ==
    /\ goroutines[g] = "once"
    /\ goroutines' = [goroutines EXCEPT ![g] =
                          IF OnceNeeded(client.initOnce) THEN "lock" ELSE "ready"]
    /\ UNCHANGED <<notStartup, client, hist>>

\* client.go initClient, line 196: with the mutex, initOnce.Do tests done
\* again and runs the body keeping the mutex, or unlocks and returns.
OnceDoSlow(g) ==
    /\ goroutines[g] = "lock"
    /\ client.initOnce.m = 0
    /\ IF OnceNeeded(client.initOnce)
           THEN /\ client' = [client EXCEPT !.initOnce.m = g]
                /\ goroutines' = [goroutines EXCEPT ![g] = "build"]
                /\ hist' = [hist EXCEPT !.bodyRuns = @ + 1]
           ELSE /\ goroutines' = [goroutines EXCEPT ![g] = "ready"]
                /\ UNCHANGED <<client, hist>>
    /\ UNCHANGED notStartup

\* client.go initClient, lines 197-199: build the http.Client if there is
\* none.
InitClientBuild(g) ==
    /\ goroutines[g] = "build"
    /\ IF ~client.client.set
           THEN /\ client' = [client EXCEPT !.client = HTTPClient(DefaultTimeout)]
                /\ hist' = [hist EXCEPT !.built = @ + 1]
           ELSE UNCHANGED <<client, hist>>
    /\ goroutines' = [goroutines EXCEPT ![g] = "timeout"]
    /\ UNCHANGED notStartup

\* client.go initClient, lines 201-203: give the http.Client the Client's
\* Timeout if it has none.
InitClientTimeout(g) ==
    /\ goroutines[g] = "timeout"
    /\ client' = IF client.client.Timeout = 0 /\ client.Timeout # 0
                     THEN [client EXCEPT !.client.Timeout = client.Timeout]
                     ELSE client
    /\ goroutines' = [goroutines EXCEPT ![g] = "logger"]
    /\ UNCHANGED <<notStartup, hist>>

\* client.go initClient, lines 205-208: set the default logger when
\* debugging; the body returns, initOnce sets done and unlocks.
InitClientLogger(g) ==
    /\ goroutines[g] = "logger"
    /\ client' = [client EXCEPT !.Logger = (client.Logger \/ client.Debug),
                                !.initOnce = [done |-> TRUE, m |-> 0]]
    /\ hist' = [hist EXCEPT !.completed = TRUE]
    /\ goroutines' = [goroutines EXCEPT ![g] = "ready"]
    /\ UNCHANGED notStartup

\* client.go Do, lines 88-117: after initClient, goroutine g goes on to its
\* transport invocation c.client.Do.
DoTransport(g) ==
    /\ goroutines[g] = "ready"
    /\ goroutines' = [goroutines EXCEPT ![g] = "transport"]
    /\ UNCHANGED <<notStartup, client, hist>>

NextClients ==
    \/ \E g \in Goroutines : DoCall(g)
    \/ \E g \in Goroutines : OnceDo(g)
    \/ \E g \in Goroutines : OnceDoSlow(g)
    \/ \E g \in Goroutines : InitClientBuild(g)
    \/ \E g \in Goroutines : InitClientTimeout(g)
    \/ \E g \in Goroutines : InitClientLogger(g)
    \/ \E g \in Goroutines : DoTransport(g)

SpecClients == InitClients /\ [][NextClients]_vars

TypeOK ==
    /\ pc \in {"start", "cacheGet", "limiter", "transport", "wait", "waitBlocked",
               "tookTimer", "tookCtx", "wokenTimer", "wokenCtx", "store", "done",
               "panic"}
    /\ timerC \in 0..1
    /\ calls \in 1..MaxCalls

(* ------------------------------------------------------------ properties *)

\* The indices of the log entries of collaborator call op.
Entries(op) == {k \in DOMAIN log : log[k].op = op}
Count(op) == Cardinality(Entries(op))

\* The k-th transport invocation of the current call.
NthTransport(n) == CHOOSE k \in Entries("Transport") : log[k].i = n - 1

\* The policy classifies response r as retryable.
Retryable(r) == RetryPolicy.set /\ r.status \in RetryPolicy.retryableStatusCodeMap

\* Do has returned (r, nil) / has returned (nil, some error).
ReturnedResp(r) == pc = "done" /\ ret.resp = r /\ ret.err = NoErr
ReturnedErr == pc = "done" /\ ret.resp = NoResp /\ ret.err # NoErr

\* No collaborator failed and no context is done.
NoLimiterError == \A k \in Entries("Limiter") : log[k].ok
NoTransportError == \A k \in Entries("Transport") : log[k].ok
NoStoreError == \A k \in Entries("Set") : log[k].ok
NoCacheHit == \A k \in Entries("Get") : ~(log[k].resp # NoResp /\ log[k].err = NoErr)
NoCancellation == ctxErr = "none" /\ reqCtxErr = "none"

\* C1: every Do call returns exactly one of (non-nil response, nil error) and
\* (nil response, non-nil error), under every configuration.
C1_ExactlyOneOfResponseAndError ==
    pc = "done" =>
        \/ ret.resp # NoResp /\ ret.err = NoErr
        \/ ret.resp = NoResp /\ ret.err # NoErr

\* An entry of the log after which the claim C2 allows no transport call: a
\* non-retryable response, a transport error, a limiter error, a canceled wait.
Final(k) ==
    \/ log[k].op = "Transport" /\ (~log[k].ok \/ ~Retryable(log[k].resp))
    \/ log[k].op = "Limiter" /\ ~log[k].ok
    \/ log[k].op = "Wait" /\ ~log[k].ok

NoTransportAfterFinal ==
    \A k \in DOMAIN log : Final(k) => \A j \in Entries("Transport") : j < k \/ j = k

\* C2 as stated: the number of transport invocations of a Do call never
\* exceeds RetryPolicy.MaxRetries (1 with a nil policy), and none follows a
\* non-retryable response, a transport error, a limiter error or a canceled
\* backoff wait.
C2_TransportCallsAtMostMaxRetries ==
    /\ pc # "start" =>
           Count("Transport") <= (IF RetryPolicy.set THEN RetryPolicy.MaxRetries ELSE 1)
    /\ NoTransportAfterFinal

\* C2 amended: the number of transport invocations never exceeds MaxRetries
\* when MaxRetries >= 0 and is 0 when MaxRetries is negative (1 with a nil
\* policy), and none follows a final event.
C2_TransportCallsBounded ==
    /\ pc # "start" =>
           Count("Transport") <=
               (IF ~RetryPolicy.set THEN 1
                ELSE IF RetryPolicy.MaxRetries >= 0 THEN RetryPolicy.MaxRetries ELSE 0)
    /\ NoTransportAfterFinal

C2_Witness ==
    /\ pc = "done"
    /\ RetryPolicy.set
    /\ RetryPolicy.MaxRetries >= 2
    /\ Count("Transport") = RetryPolicy.MaxRetries

\* The transport was called N >= 1 times, N <= MaxRetries, and answered with a
\* retryable status on the first N-1 calls and a non-retryable one on call N;
\* neither the limiter nor a context failed.
Converged ==
    /\ pc = "done"
    /\ RetryPolicy.set
    /\ Count("Transport") >= 1
    /\ Count("Transport") <= RetryPolicy.MaxRetries
    /\ NoTransportError
    /\ \A k \in Entries("Transport") :
           Retryable(log[k].resp) <=> log[k].i + 1 < Count("Transport")
    /\ NoLimiterError
    /\ NoCancellation

ConvergedResult ==
    /\ ReturnedResp(log[NthTransport(Count("Transport"))].resp)
    /\ Count("Limiter") = Count("Transport") - 1

Exhausting ==
    /\ pc = "done"
    /\ RetryPolicy.set
    /\ RetryPolicy.MaxRetries >= 1
    /\ \A k \in Entries("Transport") : log[k].ok /\ Retryable(log[k].resp)
    /\ NoLimiterError
    /\ NoCancellation

ExhaustedResult ==
    /\ Count("Transport") = RetryPolicy.MaxRetries
    /\ ReturnedResp(log[NthTransport(RetryPolicy.MaxRetries)].resp)

C5_CacheHitShortCircuit ==
    \A k \in Entries("Get") :
        log[k].resp # NoResp /\ log[k].err = NoErr =>
            /\ ReturnedResp(log[k].resp)
            /\ Len(log) = 1

C5_Witness ==
    /\ pc = "done"
    /\ Len(log) = 1
    /\ log[1].op = "Get"
    /\ log[1].resp = StoredResp(200)
    /\ ret.resp = StoredResp(200)

\* C6: once a transport invocation has returned an error, at any attempt
\* index, Do has returned (nil, non-nil error) and that invocation is the last
\* collaborator call of the Do call (no further transport invocation, no
\* RetryPolicy.Wait, no Cache.Set).
C6_TransportErrorNotRetried ==
    \A k \in Entries("Transport") :
        ~log[k].ok => ReturnedErr /\ k = Len(log)

C6_Witness ==
    /\ pc = "done"
    /\ Len(log) > 0
    /\ log[Len(log)].op = "Transport"
    /\ ~log[Len(log)].ok
    /\ log[Len(log)].i = 2
    /\ Cache

\* C7: the error Do returns for a failed transport invocation matches the
\* cancellation error of a context that had fired (the context passed to Do,
\* and the request's own context), else context.DeadlineExceeded if the
\* deadline was exceeded, else the transport's own error.
C7_TransportErrorCause ==
    \A k \in Entries("Transport") :
        ~log[k].ok /\ pc = "done" =>
            IF log[k].ctxErr # "none" \/ log[k].reqCtxErr # "none"
                THEN /\ log[k].ctxErr # "none" => log[k].ctxErr \in ret.err
                     /\ log[k].reqCtxErr # "none" => log[k].reqCtxErr \in ret.err
                ELSE IF "context.DeadlineExceeded" \in log[k].err
                         THEN "context.DeadlineExceeded" \in ret.err
                         ELSE log[k].err \subseteq ret.err

C9_NonRetryableResponseIsFinal ==
    \A k \in Entries("Transport") :
        log[k].ok /\ ~Retryable(log[k].resp) =>
            /\ pc \in {"store", "done"}
            /\ \A j \in DOMAIN log : j > k => log[j].op \notin {"Limiter", "Transport", "Wait"}
            /\ pc = "done" =>
                   \/ ReturnedResp(log[k].resp)
                   \/ ~log[Len(log)].ok /\ log[Len(log)].op = "Set" /\ ReturnedErr

C9_Witness ==
    /\ ReturnedResp(TransportResp(calls, 1, 404))
    /\ Cache
    /\ Count("Wait") = 1

\* C10: when the context passed to Do is canceled, or its deadline passes,
\* while Do is blocked in RetryPolicy.Wait, the wait is unblocked, and the
\* next thing Do does is return (nil, err) with err matching ErrRetryCanceled
\* and the context's error, with no transport invocation and no Cache.Set.
C10_BackoffCancellation ==
    [][/\ pc = "waitBlocked" /\ ctxErr = "none" /\ ctxErr' # "none" => pc' = "wokenCtx"
       /\ pc = "wokenCtx" /\ pc' # pc =>
              /\ pc' = "done"
              /\ ret'.resp = NoResp
              /\ {ErrRetryCanceled, ctxErr} \subseteq ret'.err
              /\ ctxErr # "none"
              /\ log' = Append(log, log'[Len(log')])
              /\ log'[Len(log')].op = "Wait"]_vars

C10_Witness ==
    /\ pc = "done"
    /\ Len(log) > 0
    /\ log[Len(log)].op = "Wait"
    /\ log[Len(log)].blocked
    /\ ~log[Len(log)].ok
    /\ log[Len(log)].i = 1

\* C11: when the context passed to Do is canceled while Do is in the
\* rate-limiter wait (after the backoff wait returned and before the limiter
\* wait returns), for requests with their own context too, the limiter wait
\* returns an error and Do returns a non-nil error with no further call.
C11_LimiterWaitCancellation ==
    \A k \in Entries("Limiter") :
        log[k - 1].ctxErr = "none" /\ log[k].ctxErr # "none" =>
            ~log[k].ok /\ k = Len(log) /\ ReturnedErr

\* The loop of the current Do call ended with a response of the transport.
FinalResponse ==
    /\ pc = "done"
    /\ Count("Transport") >= 1
    /\ NoTransportError /\ NoLimiterError
    /\ \A k \in Entries("Wait") : log[k].ok

LastTransport == CHOOSE k \in Entries("Transport") : \A j \in Entries("Transport") : j <= k

\* C12: no Do call invokes Cache.Set more than once; with a cache configured,
\* a Do call that reaches a final response has called Cache.Set exactly once,
\* with the key of the Cache.Get lookup, that response and the TTL the policy
\* gives for it, and returns (nil, err) with err matching the error of a
\* failed Cache.Set.
C12_CacheStore ==
    /\ Count("Set") <= 1
    /\ Cache /\ FinalResponse =>
           /\ Count("Set") = 1
           /\ \A s \in Entries("Set") :
                  /\ \A g \in Entries("Get") : log[s].key = log[g].key
                  /\ log[s].key # ""
                  /\ log[s].resp = log[LastTransport].resp
                  /\ log[s].ttlOf = log[LastTransport].resp
                  /\ IF log[s].ok
                         THEN ReturnedResp(log[LastTransport].resp)
                         ELSE ReturnedErr /\ log[s].err \subseteq ret.err

C12_Witness ==
    /\ Cache /\ FinalResponse
    /\ Count("Transport") = 2
    /\ \E s \in Entries("Set") : ~log[s].ok

\* C13: once Cache.Get has returned a non-nil error, Do has returned a non-nil
\* error matching it and made no further call.
C13_CacheReadErrorSurfaced ==
    \A k \in Entries("Get") :
        log[k].err # NoErr =>
            /\ k = Len(log)
            /\ ReturnedErr
            /\ log[k].err \subseteq ret.err

(* --------------------------------------------- ShouldRetry and RetryAfter *)

\* C14: for every policy (default, RetryableStatusCodes assigned afterwards,
\* struct literal) and every status code, ShouldRetry is true if and only if
\* the status is an element of the policy's RetryableStatusCodes; with the
\* defaults that set is {429, 503, 502, 504, 408, 409, 412, 423}.
C14_ShouldRetryIffConfigured ==
    /\ DefaultRetryPolicy(4).RetryableStatusCodes = {429, 503, 502, 504, 408, 409, 412, 423}
    /\ probe.op = "ShouldRetry" =>
           (probe.retry <=> probe.status \in RetryPolicy.RetryableStatusCodes)

\* The Retry-After value h is the positive integer n.
HeaderIs(h, n) == h # <<>> /\ Atoi(h).ok /\ Atoi(h).n = n

\* C15: for every policy with MinRetryDelay <= MaxRetryDelay and every
\* response, RetryAfter returns a duration d with MinRetryDelay <= d <=
\* MaxRetryDelay, and d is at least N seconds when the header is a positive
\* integer N within the bounds.
C15_DelayWithinBounds ==
    probe.op = "RetryAfter" /\ RetryPolicy.MinRetryDelay <= RetryPolicy.MaxRetryDelay =>
        /\ ~probe.failed
        /\ RetryPolicy.MinRetryDelay <= probe.delay
        /\ probe.delay <= RetryPolicy.MaxRetryDelay
        /\ \A n \in 1..40 :
               /\ HeaderIs(probe.header, n)
               /\ RetryPolicy.MinRetryDelay <= n * Second
               /\ n * Second <= RetryPolicy.MaxRetryDelay
               => probe.delay >= n * Second

\* The base delay the claim names: the header's integer seconds, or
\* MinRetryDelay if the header is absent or unparseable.
ClaimedBase(h) ==
    IF h # <<>> /\ Atoi(h).ok THEN Atoi(h).n * Second ELSE RetryPolicy.MinRetryDelay

\* C16: RetryAfter returns a value drawn from [base * 0.75, base * 1.25]
\* before clamping; with MinRetryDelay = 1s and MaxRetryDelay = 30s a header
\* of 10 yields a value in [7.5s, 12.5s] and no header or an unparseable one
\* yields a value in [1s, 1.25s].
C16_JitterBounds ==
    probe.op = "RetryAfter" =>
        /\ ClaimedBase(probe.header) \in 0..(40 * Second) =>
               /\ ~probe.failed
               /\ \E u \in 0..(50 * Second) :
                      /\ 3 * ClaimedBase(probe.header) <= 4 * u
                      /\ 4 * u <= 5 * ClaimedBase(probe.header)
                      /\ probe.delay = Clamp(RetryPolicy, u)
        /\ /\ RetryPolicy.MinRetryDelay = 1 * Second
           /\ RetryPolicy.MaxRetryDelay = 30 * Second
           => /\ HeaderIs(probe.header, 10) =>
                     ~probe.failed /\ 30 <= probe.delay /\ probe.delay <= 50
              /\ ~(probe.header # <<>> /\ Atoi(probe.header).ok) =>
                     ~probe.failed /\ 4 <= probe.delay /\ probe.delay <= 5

(* ------------------------------------------------------ RetryPolicy.Wait *)

\* Goroutine w has returned from Wait, with nil.
HasReturned(w) == waits[w].pc = "returned"
ReturnedNil(w) == HasReturned(w) /\ waits[w].ret = NoErr

\* C17: Wait called with an already-canceled context always returns a
\* non-nil error that matches ErrRetryCanceled and context.Canceled, on a
\* fresh DefaultRetryPolicy as well as after earlier Waits.
C17_CanceledContextWait ==
    \A w \in Waiters :
        HasReturned(w) /\ waits[w].kind = "canceled" =>
            /\ waits[w].ret # NoErr
            /\ ErrRetryCanceled \in waits[w].ret
            /\ "context.Canceled" \in waits[w].ret

\* C18: Wait called with a context whose deadline is earlier than the
\* computed delay returns no later than the deadline, with an error matching
\* ErrRetryCanceled and context.DeadlineExceeded; Wait called with a context
\* that outlives the computed delay returns nil.
C18_DeadlineWait ==
    \A w \in Waiters :
        HasReturned(w) =>
            /\ waits[w].kind = "deadline" /\ waits[w].deadline < waits[w].delay =>
                   /\ waits[w].retAt <= waits[w].deadline
                   /\ ErrRetryCanceled \in waits[w].ret
                   /\ "context.DeadlineExceeded" \in waits[w].ret
            /\ \/ waits[w].kind = "background"
               \/ waits[w].kind = "deadline" /\ waits[w].deadline > waits[w].delay
               => waits[w].ret = NoErr

\* C19: in a sequence of non-overlapping Waits on one policy, a Wait returns
\* nil only after its own computed delay has elapsed since it began: a tick
\* left over from construction or an earlier Wait never ends a later Wait
\* early.
C19_SequentialWaits ==
    ~overlapped =>
        \A w \in Waiters : ReturnedNil(w) => waits[w].retAt >= waits[w].delay

\* C20: Waits that overlap on the one policy are isolated: the tick a blocked
\* Wait receives stays due at the end of that Wait's own delay whatever the
\* other Waits do, no Wait returns nil before its own delay has elapsed, and
\* a Wait whose context is never canceled returns nil.
C20_ConcurrentWaitsIsolated ==
    overlapped =>
        \A w \in Waiters :
            /\ waits[w].pc = "blocked" =>
                   timerArmed /\ timerAt = waits[w].start + waits[w].delay
            /\ ReturnedNil(w) => waits[w].retAt >= waits[w].delay
            /\ HasReturned(w) /\ waits[w].kind = "background" => waits[w].ret = NoErr

(* ------------------------------------------------------------ initClient *)

\* Goroutine g is past initClient: at or after its transport invocation.
PastInit(g) == goroutines[g] \in {"ready", "transport"}

\* C21: for any number of concurrent Do calls on one Client the body of
\* initClient runs exactly once, the http.Client is built at most once, and
\* no Do call gets to its transport invocation before the initialization
\* has completed.
C21_InitOnce ==
    /\ hist.bodyRuns <= 1
    /\ hist.built <= 1
    /\ \A g \in Goroutines :
           PastInit(g) =>
               /\ hist.bodyRuns = 1
               /\ hist.completed
               /\ client.client.set

C21_Witness ==
    /\ \A g \in Goroutines : goroutines[g] = "transport"
    /\ hist.bodyRuns = 1 /\ hist.built = 1 /\ hist.completed

\* C22: a non-zero Client.Timeout set before the first Do is the timeout of
\* the http.Client used for the transport invocations.
C22_TimeoutOverrides ==
    \A g \in Goroutines :
        goroutines[g] = "transport" /\ client.Timeout # 0 =>
            client.client.Timeout = client.Timeout

(* --------------------------------------------------------------- helpers *)

\* The request header h has a User-Agent value.
HasUserAgent(h) == "User-Agent" \in DOMAIN h /\ h["User-Agent"] # <<>>

\* C23: Do sets the request's User-Agent header to the client's UserAgent
\* string only when the request has no User-Agent value; a User-Agent given
\* by the caller is left unchanged and no other header changes.
C23_UserAgentDefaulted ==
    probe.op = "setUserAgent" =>
        /\ HasUserAgent(probe.before) => probe.after = probe.before
        /\ ~HasUserAgent(probe.before) =>
               /\ "User-Agent" \in DOMAIN probe.after
               /\ probe.after["User-Agent"] = String(probe.ua)
        /\ \A k \in (DOMAIN probe.before \cup DOMAIN probe.after) \ {"User-Agent"} :
               /\ k \in DOMAIN probe.before
               /\ k \in DOMAIN probe.after
               /\ probe.after[k] = probe.before[k]

C23_Witness ==
    /\ probe.op = "setUserAgent"
    /\ ~HasUserAgent(probe.before)
    /\ "Accept" \in DOMAIN probe.before
    /\ probe.after["User-Agent"] # <<>>

\* C24: NewRequest returns (nil, err) with err matching ErrRequest whenever
\* the method is not one of GET, HEAD, POST, PUT, PATCH, DELETE, CONNECT,
\* OPTIONS, TRACE or the URL cannot be parsed; otherwise it returns a Request
\* with the given method and URL whose headers are exactly the supplied
\* ones.
C24_NewRequest ==
    probe.op = "NewRequest" =>
        IF \/ probe.method \notin {"GET", "HEAD", "POST", "PUT", "PATCH", "DELETE",
                                    "CONNECT", "OPTIONS", "TRACE"}
           \/ ~ParseOK(probe.url)
            THEN ~probe.out.ok /\ ErrRequest \in probe.out.err
            ELSE /\ probe.out.ok
                 /\ probe.out.Method = probe.method
                 /\ probe.out.URL = probe.url
                 /\ DOMAIN probe.out.Header =
                        {CanonicalMIMEHeaderKey(k) : k \in DOMAIN probe.headers}
                 /\ \A k \in DOMAIN probe.headers :
                        HeaderGet(probe.out.Header, k) = probe.headers[k]

\* The text k is empty or white space only.
Blank(k) == \A n \in DOMAIN k : k[n] \in {" ", "\t", "\n"}

\* What the claim says of a SetIdempotencyKey call: for POST and PATCH the
\* header is the key, or a non-empty generated value for a blank key; for
\* other methods the header is unchanged and nil is returned.
IdempotencyKeySet ==
    IF probe.method \in {"POST", "PATCH"}
        THEN /\ "Idempotency-Key" \in DOMAIN probe.out.Header
             /\ IF Blank(probe.key)
                    THEN probe.out.Header["Idempotency-Key"] # <<>>
                    ELSE probe.out.Header["Idempotency-Key"] = probe.key
             /\ \A k \in DOMAIN probe.before \ {"Idempotency-Key"} :
                    k \in DOMAIN probe.out.Header /\ probe.out.Header[k] = probe.before[k]
        ELSE probe.out.Header = probe.before /\ probe.out.err = {}

\* C25, as in the specification: SetIdempotencyKey sets the Idempotency-Key
\* header if and only if the method is POST or PATCH, to the key or to a
\* generated value for a blank key; for every other method the headers are
\* unchanged and nil is returned.
C25_IdempotencyKey ==
    probe.op = "SetIdempotencyKey" => IdempotencyKeySet

\* C25, amended: the above unless the key is blank and no random key can be
\* generated; then an error matching ErrIdempotencyKey is returned and the
\* headers are unchanged, whatever the method.
C25_IdempotencyKeyOrError ==
    probe.op = "SetIdempotencyKey" =>
        IF Blank(probe.key) /\ ~probe.uuidOK
            THEN ErrIdempotencyKey \in probe.out.err /\ probe.out.Header = probe.before
            ELSE IdempotencyKeySet /\ probe.out.err = {}

C25_Witness ==
    /\ probe.op = "SetIdempotencyKey"
    /\ probe.method = "PATCH"
    /\ probe.key = <<" ">>
    /\ "Idempotency-Key" \notin DOMAIN probe.before
    /\ "Idempotency-Key" \in DOMAIN probe.out.Header
    /\ probe.out.Header["Idempotency-Key"] # <<>>

\* C26: DrainResponseBody returns nil when the body is read to EOF and
\* closed, an error matching ErrCannotDrainResponse when reading fails, and
\* an error matching ErrCannotCloseResponse that wraps the close error when
\* the read succeeds and Close fails.
C26_DrainErrors ==
    probe.op = "DrainResponseBody" =>
        /\ ~probe.body.readFails /\ ~probe.body.closeFails =>
               probe.out.err = {} /\ probe.out.eof /\ probe.out.closes = 1
        /\ probe.body.readFails => "cannot drain response body" \in probe.out.err
        /\ ~probe.body.readFails /\ probe.body.closeFails =>
               /\ "cannot close response body" \in probe.out.err
               /\ "mock close error" \in probe.out.err

C26_Witness ==
    /\ probe.op = "DrainResponseBody"
    /\ ~probe.body.readFails /\ probe.body.closeFails
    /\ probe.out.err # {}

\* C27: on every path on which DrainResponseBody returns, the one where
\* draining fails included, Close has been called on the body exactly once.
C27_BodyClosedOnce ==
    probe.op = "DrainResponseBody" => probe.out.closes = 1

\* C28: WriteJSON of a value that can be encoded returns a non-nil buffer
\* with the JSON encoding and a nil error, and ReadJSON of that buffer gives
\* an equal value; for a value that cannot be encoded it returns (nil, err)
\* with err matching ErrCannotEncodeJSON.
C28_WriteJSONRoundTrip ==
    probe.op = "WriteJSON" =>
        IF probe.val.kind \notin {"chan", "func"}
            THEN /\ probe.out.outcome = "returned"
                 /\ probe.out.buf.set
                 /\ probe.out.err = {}
                 /\ ReadJSON(probe.out.buf.bytes) = [err |-> {}, val |-> probe.val]
            ELSE /\ probe.out.outcome = "returned"
                 /\ ~probe.out.buf.set
                 /\ "cannot encode JSON request" \in probe.out.err

\* C29: IsSuccess(resp) is true if and only if 200 <= resp.StatusCode < 300.
C29_IsSuccess ==
    probe.op = "IsSuccess" =>
        (probe.out <=> (200 <= probe.status /\ probe.status < 300))

C29_Witness == probe.op = "IsSuccess" /\ probe.status = 299 /\ probe.out

\* The number of characters of text s that are ch.
Occurrences(s, ch) == Cardinality({k \in DOMAIN s : s[k] = ch})

\* The comments without their parentheses, joined by "; ".
RECURSIVE JoinedComments(_)
JoinedComments(cs) ==
    IF cs = <<>> THEN <<>>
    ELSE SelectSeq(Head(cs), LAMBDA r : r \notin {"(", ")"})
             \o (IF Tail(cs) = <<>> THEN <<>> ELSE <<";", " ">> \o JoinedComments(Tail(cs)))

\* The text the claim gives for a UserAgent.
ClaimedString(ua) ==
    IF ~ua.set \/ ua.Token = <<>> \/ ua.Version = <<>> THEN <<>>
    ELSE IF ua.Comment = <<>> THEN ua.Token \o <<"/">> \o ua.Version
    ELSE ua.Token \o <<"/">> \o ua.Version \o <<" ", "(">>
             \o JoinedComments(ua.Comment) \o <<")">>

\* C30, as in the specification: String returns the empty string for a nil
\* receiver or an empty Token or Version, else Token "/" Version and, when
\* there are comments, a space and one parenthesized group of the comments
\* joined by "; " with their parentheses removed; so the output has at most
\* one '(' and one ')'.
C30_UserAgentString ==
    probe.op = "String" =>
        /\ probe.out = ClaimedString(probe.ua)
        /\ Occurrences(probe.out, "(") <= 1
        /\ Occurrences(probe.out, ")") <= 1

\* C30, amended: the output has at most one '(' and one ')' when Token and
\* Version hold no parenthesis; the parentheses of Token and Version are
\* kept.
C30_UserAgentStringOfPlainToken ==
    probe.op = "String" =>
        /\ probe.out = ClaimedString(probe.ua)
        /\ Occurrences(probe.ua.Token \o probe.ua.Version, "(") = 0
           /\ Occurrences(probe.ua.Token \o probe.ua.Version, ")") = 0
           => /\ Occurrences(probe.out, "(") <= 1
              /\ Occurrences(probe.out, ")") <= 1

C30_Witness ==
    /\ probe.op = "String"
    /\ Len(probe.ua.Comment) = 2
    /\ Occurrences(Concat(probe.ua.Comment), "(") > 0
    /\ Occurrences(probe.out, "(") = 1

(* ------------------------------------------------- the loop as a whole *)

\* C31: every backoff wait of a Do call is followed by another attempt: when
\* Do has returned after calling the transport, the number of calls of
\* RetryPolicy.Wait is at most the number of transport calls minus one.
C31_WaitFollowedByAttempt ==
    pc = "done" /\ Count("Transport") >= 1 =>
        Count("Wait") <= Count("Transport") - 1

\* Do has closed the body of response r: a call of Body.Close on it is in
\* the log.
BodyClosed(r) == \E k \in Entries("Close") : log[k].resp = r

\* C32: no response is leaked by Do: when Do has returned, every response
\* obtained from a transport call is the response returned to the caller or
\* has had its body closed.
C32_NoResponseLeaked ==
    pc = "done" =>
        \A k \in Entries("Transport") :
            log[k].ok => (ret.resp = log[k].resp \/ BodyClosed(log[k].resp))

\* C33: a response that the retry policy classifies as retryable is never
\* written to the cache: every response passed to Cache.Set has
\* ShouldRetry(resp) = false.
C33_RetryableNeverStored ==
    \A k \in Entries("Set") : ~Retryable(log[k].resp)

\* The loop iterations of the current call that made a collaborator call, and
\* the place of each call within its iteration.
LoopOps == {"Limiter", "Transport", "Wait"}
LoopEntries == {k \in DOMAIN log : log[k].op \in LoopOps}
Iterations == {log[k].i : k \in LoopEntries}
Rank(op) == IF op = "Limiter" THEN 1 ELSE IF op = "Transport" THEN 2 ELSE 3

\* At most MaxRetries iterations (none for a negative MaxRetries, one with a
\* nil policy), each with at most one limiter wait, one transport call and
\* one backoff wait, in that order, one iteration after the other.
LoopShape ==
    /\ Cardinality(Iterations) <=
           (IF ~RetryPolicy.set THEN 1
            ELSE IF RetryPolicy.MaxRetries >= 0 THEN RetryPolicy.MaxRetries ELSE 0)
    /\ \A j \in LoopEntries : \A k \in LoopEntries :
           j < k =>
               \/ log[j].i < log[k].i
               \/ log[j].i = log[k].i /\ Rank(log[j].op) < Rank(log[k].op)

\* Do has returned, or a call of the cache made with the nil response of a
\* loop that never ran did not return.
Returned == pc = "done" \/ (pc = "panic" /\ resp = NoResp)

\* C34: a Do call that is alone on its RetryPolicy, whose collaborator calls
\* all return and whose backoff timer fires, returns, after at most MaxRetries
\* loop iterations, each with at most one limiter wait, one transport call
\* and one backoff wait, in that order.
C34_Termination ==
    /\ []LoopShape
    /\ (pc = "start") ~> Returned

(* ------------------------------------------------------ the random draw *)

\* C35: RetryAfter only asks the random source for uniform(n) with n > 0: for
\* every policy and every response the bound maxJitter - minJitter computed
\* in jitter is strictly positive, and RetryAfter completes with a value.
C35_JitterBoundPositive ==
    probe.op = "RetryAfter" =>
        /\ jitterBound(BaseDelay(RetryPolicy, probe.header)) > 0
        /\ ~probe.failed

====
